---- MODULE Spec2Model ----
(***************************************************************************)
(* BMSRegressor (src/src/autora/theorist/bms/regressor.py): the estimator  *)
(* facade around the Bayesian machine scientist.  The model follows the    *)
(* attributes of the estimator instances, the module-level PRIORS          *)
(* dictionary they share by reference, and one action per public method.   *)
(***************************************************************************)
EXTENDS Integers, Sequences, FiniteSets, TLC

\* ------------------------------------------------------------------ bounds
\* fit calls followed in one behaviour, over all estimators
MaxFits == 2
\* length of the default temperature ladder (20 in the source)
NumTemps == 2
\* widest feature matrix handed to fit and predict
MaxCols == 2

\* ------------------------------------------------------- program constants
DefaultEpochs == 1500
DefaultNumParam == 1
\* weight add_primitive stores in the prior table
DefaultWeight == 1

\* Two estimator instances: enough to observe what instances share.
Estimators == {"A", "B"}

\* ------------------------------------------------------------ dictionaries
EmptyDict == [k \in {} |-> 0]

\* dict.update({k: v})
DictUpdate(d, k, v) == [x \in (DOMAIN d) \cup {k} |-> IF x = k THEN v ELSE d[x]]

\* "Nopi_" + op.__name__
PriorKey(name) == "Nopi_" \o name

\* ----------------------------------------------------------------- values
\* A Python function object: it has a __name__, and inspect.signature either
\* yields its parameters (sig) or raises ValueError (built-ins such as max).
Callable(n, k, s) == [kind |-> "callable", name |-> n, nparams |-> k, sig |-> s]
\* A str object: it has no __name__.
Str(s) == [kind |-> "str", name |-> s, nparams |-> 0, sig |-> FALSE]
NoneVal == [kind |-> "None", name |-> "", nparams |-> 0, sig |-> FALSE]

F1 == Callable("f", 1, TRUE)
F2 == Callable("f", 2, TRUE)
FNoSig == Callable("f", 0, FALSE)
Sin2 == Callable("sin", 2, TRUE)

\* operators handed to add_primitive
OpInputs == {F1, F2, FNoSig, Sin2}
\* the custom_ops argument of fit: None, or a list of operators
NoCustomOps == [none |-> TRUE, items |-> <<>>]
CustomOps(items) == [none |-> FALSE, items |-> items]
\* the root and custom_ops arguments fit is called with: a root that is a
\* function, the name of a known operator or an unknown name
FitArgs ==
    { [root |-> NoneVal, custom |-> NoCustomOps],
      [root |-> F1, custom |-> NoCustomOps],
      [root |-> Str("sin"), custom |-> NoCustomOps],
      [root |-> Str("zz"), custom |-> CustomOps(<<F2>>)],
      [root |-> NoneVal, custom |-> CustomOps(<<F2>>)],
      [root |-> NoneVal, custom |-> CustomOps(<<F1, FNoSig>>)] }
\* the arguments an engine failure is followed with: nothing to register, a
\* root to register, custom_ops to register
FailingFitArgs ==
    { [root |-> NoneVal, custom |-> NoCustomOps],
      [root |-> F1, custom |-> NoCustomOps],
      [root |-> NoneVal, custom |-> CustomOps(<<F2>>)] }
\* what the engine does in a fit call: the run returns the tree of population
\* slot best, or the session build raises, or the run raises
Returns(k) == [build |-> TRUE, run |-> TRUE, best |-> k]
EngineFailures ==
    { [build |-> FALSE, run |-> FALSE, best |-> 1],
      [build |-> TRUE, run |-> FALSE, best |-> 1] }

\* get_priors(): the built-in prior table and operator-arity table, a fresh
\* pair of dictionaries per call.
get_priors == [priors |-> ("Nopi_sin" :> 5) @@ ("Nopi_+" :> 3),
               ops |-> ("sin" :> 1) @@ ("+" :> 2)]

\* TEMPERATURES = [1.0] + [1.04**k for k in range(1, 20)], in hundredths and
\* with the powers of 1.04 taken as 1 + 0.04 k
TEMPERATURES == [k \in 1..NumTemps |-> 100 + 4 * (k - 1)]
\* a ladder passed explicitly to the constructor
UserLadder == <<250>>
UserEpochs == 3
UserPriors == ("Nopi_sin" :> 2)

\* Tree(): the model an estimator holds before any fit; a tree built by the
\* session of fit call number fit sits in the population under key.
DefaultTree == [fit |-> 0, key |-> -1]

\* the feature matrices: labelled frames and bare arrays
Frame(labels) == [hasColumns |-> TRUE, columns |-> labels,
                  ncols |-> Len(labels), nrows |-> 2]
Array(n) == [hasColumns |-> FALSE, columns |-> <<>>, ncols |-> n, nrows |-> 2]
XInputs == {Frame(<<"a", "b">>), Array(MaxCols)}
YInputs == {[nrows |-> 2], [nrows |-> 3]}
\* the fit calls followed.  A y that does not match X fails before the other
\* arguments are looked at, so one choice of them stands for all; every
\* choice of root and custom_ops is followed through a run that returns the
\* tree of the first slot, the other slots with the default arguments.
FitCalls ==
    { [X |-> X, y |-> [nrows |-> 3],
       args |-> [root |-> NoneVal, custom |-> NoCustomOps],
       engine |-> Returns(1)] : X \in XInputs }
    \cup { [X |-> X, y |-> [nrows |-> 2], args |-> a, engine |-> Returns(1)] :
             X \in XInputs, a \in FitArgs }
    \cup { [X |-> X, y |-> [nrows |-> 2],
             args |-> [root |-> NoneVal, custom |-> NoCustomOps],
             engine |-> Returns(k)] : X \in XInputs, k \in 2..NumTemps }
    \cup { [X |-> X, y |-> [nrows |-> 2], args |-> a, engine |-> g] :
             X \in XInputs, a \in FailingFitArgs, g \in EngineFailures }

\* self.X_ = None / self.y_ = None
NoX == [isNone |-> TRUE, hasColumns |-> FALSE, columns |-> <<>>,
        ncols |-> 0, nrows |-> 0, fit |-> 0]
NoY == [isNone |-> TRUE, nrows |-> 0, fit |-> 0]

\* ---------------------------------------------------------------- state
VARIABLES
    dicts,       \* prior tables by identity: "PRIORS" and the users' own
    ts, prior_par, epochs,                 \* configuration
    pms, ops, custom_ops,                  \* session and registry
    X_, y_, model_, temp_, models_, loss_, cache_, variables,
    mutated,     \* trees of the population changed in place after the search
    nfit,        \* fit calls made on each estimator so far
    failed,      \* whether some fit call on the estimator raised
    last,        \* the call just made, how it ended and what it returned
    hist         \* registry before the latest add_primitive calls

config == <<ts, prior_par, epochs>>
registry == <<dicts, ops, custom_ops>>
fitted == <<X_, y_, model_, temp_, models_, loss_, cache_, variables, pms,
            mutated>>
ghost == <<nfit, failed>>
vars == <<dicts, ts, prior_par, epochs, pms, ops, custom_ops, X_, y_, model_,
          temp_, models_, loss_, cache_, variables, mutated, nfit, failed,
          last, hist>>

\* ------------------------------------------------------------- registry
\* the three tables one estimator reads and writes
Registry(e) == [custom_ops |-> custom_ops[e], ops |-> ops[e],
                prior_par |-> dicts[prior_par[e]], raised |-> ""]

NoRegistry == [custom_ops |-> EmptyDict, ops |-> EmptyDict,
               prior_par |-> EmptyDict, raised |-> "unset"]

\* add_primitive with the prior table rebound to a new dictionary
add_primitive_fresh_priors(reg, op) ==
    IF op.kind # "callable"
    THEN [reg EXCEPT !.raised = "AttributeError"]
    ELSE LET r1 == [reg EXCEPT !.custom_ops = DictUpdate(@, op.name, op)]
         IN IF ~op.sig
            THEN [r1 EXCEPT !.raised = "ValueError"]
            ELSE [r1 EXCEPT !.ops = DictUpdate(@, op.name, op.nparams),
                            !.prior_par = PriorKey(op.name) :> DefaultWeight]

\* add_primitive with ops.setdefault in place of ops.update
add_primitive_setdefault(reg, op) ==
    IF op.kind # "callable"
    THEN [reg EXCEPT !.raised = "AttributeError"]
    ELSE LET r1 == [reg EXCEPT !.custom_ops = DictUpdate(@, op.name, op)]
         IN IF ~op.sig
            THEN [r1 EXCEPT !.raised = "ValueError"]
            ELSE [r1 EXCEPT !.ops = IF op.name \in DOMAIN @ THEN @
                                    ELSE DictUpdate(@, op.name, op.nparams),
                            !.prior_par = DictUpdate(@, PriorKey(op.name),
                                                     DefaultWeight)]

\* add_primitive with custom_ops rebound to a dictionary of the one operator
add_primitive_rebind(reg, op) ==
    IF op.kind # "callable"
    THEN [reg EXCEPT !.raised = "AttributeError"]
    ELSE LET r1 == [reg EXCEPT !.custom_ops = op.name :> op]
         IN IF ~op.sig
            THEN [r1 EXCEPT !.raised = "ValueError"]
            ELSE [r1 EXCEPT !.ops = DictUpdate(@, op.name, op.nparams),
                            !.prior_par = DictUpdate(@, PriorKey(op.name),
                                                     DefaultWeight)]

\* add_primitive(op) on the tables reg: three updates in program order; the
\* first raises AttributeError when op has no __name__, the second raises
\* ValueError when signature(op) does.
add_primitive(reg, op) ==
    IF op.kind # "callable"
    THEN [reg EXCEPT !.raised = "AttributeError"]
    ELSE LET r1 == [reg EXCEPT !.custom_ops = DictUpdate(@, op.name, op)]
         IN IF ~op.sig
            THEN [r1 EXCEPT !.raised = "ValueError"]
            ELSE [r1 EXCEPT !.ops = DictUpdate(@, op.name, op.nparams),
                            !.prior_par = DictUpdate(@, PriorKey(op.name),
                                                     DefaultWeight)]

\* the keys of the three tables a session is built on
Vocabulary(reg) == [ops |-> DOMAIN reg.ops, custom_ops |-> DOMAIN reg.custom_ops,
                    prior_par |-> DOMAIN reg.prior_par]
NoVocabulary == [ops |-> {}, custom_ops |-> {}, prior_par |-> {}]

\* ----------------------------------------------------------------- Init
\* Parallel(Ts=ts): the session the constructor builds
InitialSession(ladder) ==
    [fit |-> 0, Ts |-> ladder, variables |-> <<>>, parameters |-> 0,
     trees |-> [i \in 1..Len(ladder) |-> [fit |-> 0, key |-> ladder[i]]]]

NoCall == [op |-> "init", e |-> "A", outcome |-> "ok", arg |-> NoneVal,
           columns |-> <<>>, vocab |-> NoVocabulary, facades |-> <<>>,
           custom |-> <<>>, calls |-> <<>>, carried |-> {}, earlier |-> <<>>,
           idx |-> 0]
NoHist == [n |-> 0, pre |-> NoRegistry, base |-> NoRegistry]

\* __init__: B is built with the defaults (the shared PRIORS and TEMPERATURES
\* objects), A either with the defaults or with arguments of its own.
Init ==
    /\ \E dflt \in {d \in [Estimators -> BOOLEAN] : d["B"]} :
          /\ prior_par = [e \in Estimators |-> IF dflt[e] THEN "PRIORS" ELSE e]
          /\ ts = [e \in Estimators |-> IF dflt[e] THEN TEMPERATURES ELSE UserLadder]
          /\ epochs = [e \in Estimators |-> IF dflt[e] THEN DefaultEpochs ELSE UserEpochs]
    /\ dicts = [r \in {"PRIORS"} \cup Estimators |->
                   IF r = "PRIORS" THEN get_priors.priors ELSE UserPriors]
    /\ pms = [e \in Estimators |-> InitialSession(ts[e])]
    /\ ops = [e \in Estimators |-> get_priors.ops]
    /\ custom_ops = [e \in Estimators |-> EmptyDict]
    /\ X_ = [e \in Estimators |-> NoX]
    /\ y_ = [e \in Estimators |-> NoY]
    /\ model_ = [e \in Estimators |-> DefaultTree]
    /\ temp_ = [e \in Estimators |-> 0]
    /\ models_ = [e \in Estimators |-> <<DefaultTree>>]
    /\ loss_ = [e \in Estimators |-> [fit |-> 0]]
    /\ cache_ = [e \in Estimators |-> [fit |-> 0, steps |-> 0]]
    /\ variables = [e \in Estimators |-> <<>>]
    /\ mutated = [e \in Estimators |-> {}]
    /\ nfit = [e \in Estimators |-> 0]
    /\ failed = [e \in Estimators |-> FALSE]
    /\ last = NoCall
    /\ hist = NoHist

\* -------------------------------------------------------- add_primitive
\* writes the tables r back into estimator e and the dictionary it points to
StoreRegistry(e, r) ==
    /\ custom_ops' = [custom_ops EXCEPT ![e] = r.custom_ops]
    /\ ops' = [ops EXCEPT ![e] = r.ops]
    /\ dicts' = [dicts EXCEPT ![prior_par[e]] = r.prior_par]

AddPrimitive(e, op) ==
    LET r == add_primitive(Registry(e), op)
        again == /\ last.op = "add_primitive" /\ last.e = e
                 /\ last.outcome = "ok" /\ last.arg.name = op.name
    IN /\ StoreRegistry(e, r)
       /\ last' = [op |-> "add_primitive", e |-> e,
                   outcome |-> IF r.raised = "" THEN "ok" ELSE r.raised,
                   arg |-> op, columns |-> <<>>, vocab |-> NoVocabulary,
                   facades |-> <<>>, custom |-> <<>>, calls |-> <<>>,
                   carried |-> {}, earlier |-> <<>>, idx |-> 0]
       /\ hist' = IF r.raised # "" THEN NoHist
                  ELSE IF again
                       THEN [n |-> 2, pre |-> Registry(e), base |-> hist.pre]
                       ELSE [n |-> 1, pre |-> Registry(e), base |-> NoRegistry]
       /\ UNCHANGED <<config, fitted, ghost>>

\* ------------------------------------------------------------------ fit
\* lines 106-110: list(X.columns) when X has columns, else X0..X(n-1)
ResolveVariables(X) ==
    IF X.hasColumns THEN X.columns
    ELSE [i \in 1..X.ncols |-> "X" \o ToString(i - 1)]

\* check_X_y: X and y must have the same number of rows
check_X_y(X, y) == X.nrows = y.nrows

\* for op in custom_ops: self.add_primitive(op); stops at the first raise
RECURSIVE RegisterAll(_, _)
RegisterAll(reg, items) ==
    IF items = <<>> \/ reg.raised # "" THEN reg
    ELSE RegisterAll(add_primitive(reg, Head(items)), Tail(items))

\* root in self.ops.keys(): the keys are strings, so a function object is
\* never among them
RootInOps(root, table) == root.kind = "str" /\ root.name \in DOMAIN table

\* Parallel(Ts, variables, parameters, x, y, prior_par, ops, custom_ops,
\* root, random_state): a population of one tree per temperature of the
\* ladder, keyed by the temperature, in ladder order; the three tables are
\* handed over by reference, so the session reads the estimator's own
Parallel(id, ladder, names, nparam, root) ==
    [fit |-> id, Ts |-> ladder, variables |-> names, parameters |-> nparam,
     trees |-> [i \in 1..Len(ladder) |-> [fit |-> id, key |-> ladder[i]]]]

\* list(self.pms.trees.values())
TreeValues(session) == session.trees

\* lines 135-139: what fit stores on the estimator once the run has returned
\* the tree of slot best
FittedStateMerged(e, id, session, best, names, X, y) ==
    [model_ |-> TreeValues(session)[best],
     loss_ |-> [fit |-> id],
     cache_ |-> [fit |-> id, steps |-> epochs[e]],
     models_ |-> models_[e] \o TreeValues(session),
     X_ |-> [isNone |-> FALSE, hasColumns |-> TRUE, columns |-> names,
             ncols |-> X.ncols, nrows |-> X.nrows, fit |-> id],
     y_ |-> [isNone |-> FALSE, nrows |-> y.nrows, fit |-> id]]

FittedState(e, id, session, best, names, X, y) ==
    [model_ |-> TreeValues(session)[best],
     loss_ |-> [fit |-> id],
     cache_ |-> [fit |-> id, steps |-> epochs[e]],
     models_ |-> TreeValues(session),
     X_ |-> [isNone |-> FALSE, hasColumns |-> TRUE, columns |-> names,
             ncols |-> X.ncols, nrows |-> X.nrows, fit |-> id],
     y_ |-> [isNone |-> FALSE, nrows |-> y.nrows, fit |-> id]]

\* fit calls made so far, on any estimator
FitCount == nfit["A"] + nfit["B"]

\* one call fit makes into the registry or the engine: add_primitive with
\* the operator of that name, taken from custom_ops or from root; Parallel;
\* utils.run with an iteration budget; and whether the call raised
Step(step, name, from, budget, raised) ==
    [step |-> step, name |-> name, from |-> from, budget |-> budget,
     raised |-> raised]

\* the add_primitive calls of the loop over custom_ops (lines 119-120): the
\* loop ends with the first call that raises
RECURSIVE RegisterTrace(_, _)
RegisterTrace(reg, items) ==
    IF items = <<>> \/ reg.raised # "" THEN <<>>
    ELSE LET r == add_primitive(reg, Head(items))
         IN <<Step("add_primitive", Head(items).name, "custom_ops", 0,
                   r.raised # "")>>
            \o RegisterTrace(r, Tail(items))

\* fit with the run step called once more when it has raised
FitTraceRetry(custom, root, reg0, rootCall, reg2, engine, budget) ==
    LET viaCustom == IF custom.none THEN <<>>
                     ELSE RegisterTrace(reg0, custom.items)
        viaRoot == IF rootCall
                   THEN <<Step("add_primitive", root.name, "root", 0,
                               reg2.raised # "")>>
                   ELSE <<>>
        build == IF reg2.raised = ""
                 THEN <<Step("Parallel", "", "", 0, ~engine.build)>> ELSE <<>>
        run == IF reg2.raised = "" /\ engine.build
               THEN IF engine.run
                    THEN <<Step("run", "", "", budget, FALSE)>>
                    ELSE <<Step("run", "", "", budget, TRUE),
                           Step("run", "", "", budget, TRUE)>>
               ELSE <<>>
    IN viaCustom \o viaRoot \o build \o run

\* lines 118-135: the calls fit makes once X and y are validated, in program
\* order: add_primitive for each operator of custom_ops, add_primitive for
\* the root when the guard of line 121 lets it through (rootCall), Parallel,
\* utils.run(self.pms, self.epochs); a call that raises ends fit
FitTrace(custom, root, reg0, rootCall, reg2, engine, budget) ==
    LET viaCustom == IF custom.none THEN <<>>
                     ELSE RegisterTrace(reg0, custom.items)
        viaRoot == IF rootCall
                   THEN <<Step("add_primitive", root.name, "root", 0,
                               reg2.raised # "")>>
                   ELSE <<>>
        build == IF reg2.raised = ""
                 THEN <<Step("Parallel", "", "", 0, ~engine.build)>> ELSE <<>>
        run == IF reg2.raised = "" /\ engine.build
               THEN <<Step("run", "", "", budget, ~engine.run)>>
               ELSE <<>>
    IN viaCustom \o viaRoot \o build \o run

\* the names the add_primitive calls of a fit call registered
Registered(calls) ==
    {calls[i].name : i \in {j \in DOMAIN calls :
                              /\ calls[j].step = "add_primitive"
                              /\ ~calls[j].raised}}

\* fit with the registrations of the call undone when the engine raises
TablesAfterFitRolledBack(valid, ok, reg0, reg2) ==
    IF valid /\ ok THEN reg2 ELSE reg0

\* the tables fit leaves on the estimator: those it held when check_X_y
\* raised (line 112), else those after the registrations of lines 118-122,
\* whether the engine then raised or not (ok): nothing undoes them
TablesAfterFit(valid, ok, reg0, reg2) ==
    IF valid THEN reg2 ELSE reg0

\* fit(X, y, num_param, root, custom_ops), with what the engine does in it
Fit(e, X, y, root, custom, engine) ==
    LET id == nfit[e] + 1
        names == ResolveVariables(X)
        valid == check_X_y(X, y)
        reg0 == Registry(e)
        reg1 == IF custom.none THEN reg0 ELSE RegisterAll(reg0, custom.items)
        rootCall == /\ reg1.raised = "" /\ root.kind # "None"
                    /\ ~RootInOps(root, reg1.ops)
        reg2 == IF rootCall THEN add_primitive(reg1, root) ELSE reg1
        session == Parallel(id, ts[e], names, DefaultNumParam, root)
        built == valid /\ reg2.raised = "" /\ engine.build
        ok == built /\ engine.run
        reg == TablesAfterFit(valid, ok, reg0, reg2)
        calls == IF valid
                 THEN FitTrace(custom, root, reg0, rootCall, reg2, engine,
                               epochs[e])
                 ELSE <<>>
        best == engine.best
        new == FittedState(e, id, session, best, names, X, y)
        outcome == IF ~valid THEN "ValueError"
                   ELSE IF reg2.raised # "" THEN reg2.raised
                   ELSE IF ~ok THEN "EngineError" ELSE "ok"
    IN /\ FitCount < MaxFits
       /\ best \in 1..Len(ts[e])
       /\ variables' = [variables EXCEPT ![e] = names]
       /\ StoreRegistry(e, reg)
       /\ pms' = IF built THEN [pms EXCEPT ![e] = session] ELSE pms
       /\ IF ok
          THEN /\ model_' = [model_ EXCEPT ![e] = new.model_]
               /\ loss_' = [loss_ EXCEPT ![e] = new.loss_]
               /\ cache_' = [cache_ EXCEPT ![e] = new.cache_]
               /\ models_' = [models_ EXCEPT ![e] = new.models_]
               /\ X_' = [X_ EXCEPT ![e] = new.X_]
               /\ y_' = [y_ EXCEPT ![e] = new.y_]
               /\ mutated' = [mutated EXCEPT ![e] = {}]
          ELSE UNCHANGED <<model_, loss_, cache_, models_, X_, y_, mutated>>
       /\ nfit' = [nfit EXCEPT ![e] = id]
       /\ failed' = [failed EXCEPT ![e] = @ \/ ~ok]
       /\ last' = [op |-> "fit", e |-> e, outcome |-> outcome,
                   arg |-> root, columns |-> <<>>,
                   vocab |-> IF built THEN Vocabulary(reg2) ELSE NoVocabulary,
                   facades |-> <<>>,
                   custom |-> IF custom.none THEN <<>> ELSE custom.items,
                   calls |-> calls,
                   carried |-> IF /\ last.op = "fit" /\ last.e = e
                                  /\ last.outcome = "EngineError"
                               THEN Registered(last.calls) ELSE {},
                   earlier |-> <<>>, idx |-> 0]
       /\ hist' = NoHist
       /\ UNCHANGED <<config, temp_>>

\* ---------------------------------------------------------------- reads
\* the attributes __init__ assigns (lines 67-80): hasattr is true of each
InstanceAttributes ==
    {"ts", "prior_par", "epochs", "pms", "ops", "custom_ops", "X_", "y_",
     "model_", "temp_", "models_", "loss_", "cache_", "variables"}

\* sklearn's check_is_fitted(self, attributes): all(hasattr(self, a))
check_is_fitted(attributes) == attributes \subseteq InstanceAttributes

\* how a call into the engine on tree ends: a tree a search produced serves
\* it; what Tree() does is the engine's business
TreeCall(tree) == IF tree.fit = 0 THEN {"ok", "EngineError"} ELSE {"ok"}

Returned(name, e, outcome, cols, made) ==
    /\ last' = [op |-> name, e |-> e, outcome |-> outcome, arg |-> NoneVal,
                columns |-> cols, vocab |-> NoVocabulary, facades |-> made,
                custom |-> <<>>, calls |-> <<>>, carried |-> {},
                earlier |-> IF /\ name = "get_models" /\ last.op = name
                               /\ last.e = e
                            THEN last.facades ELSE <<>>,
                idx |-> 0]
    /\ hist' = NoHist

\* predict that stores the names it puts on its input
PredictRenaming(e, ncols) ==
    /\ IF ~check_is_fitted({"model_"})
       THEN Returned("predict", e, "NotFittedError", <<>>, <<>>)
       ELSE IF Len(variables[e]) # ncols
            THEN Returned("predict", e, "ValueError", <<>>, <<>>)
            ELSE \E r \in TreeCall(model_[e]) :
                    Returned("predict", e, r, variables[e], <<>>)
    /\ variables' = [variables EXCEPT
                        ![e] = [i \in 1..ncols |-> "X" \o ToString(i - 1)]]
    /\ UNCHANGED <<config, registry, ghost, X_, y_, model_, temp_, models_,
                   loss_, cache_, pms, mutated>>

\* predict(X) with an X of ncols columns
Predict(e, ncols) ==
    /\ IF ~check_is_fitted({"model_"})
       THEN Returned("predict", e, "NotFittedError", <<>>, <<>>)
       ELSE IF Len(variables[e]) # ncols
            THEN Returned("predict", e, "ValueError", <<>>, <<>>)
            ELSE \E r \in TreeCall(model_[e]) :
                    Returned("predict", e, r, variables[e], <<>>)
    /\ UNCHANGED <<config, registry, fitted, ghost>>

present_results(e) ==
    /\ IF ~check_is_fitted({"model_", "loss_", "cache_"})
       THEN Returned("present_results", e, "NotFittedError", <<>>, <<>>)
       ELSE \E r \in TreeCall(model_[e]) :
               Returned("present_results", e, r, <<>>, <<>>)
    /\ UNCHANGED <<config, registry, fitted, ghost>>

repr(e) ==
    /\ \E r \in TreeCall(model_[e]) : Returned("repr", e, r, <<>>, <<>>)
    /\ UNCHANGED <<config, registry, fitted, ghost>>

latex(e) ==
    /\ \E r \in TreeCall(model_[e]) : Returned("latex", e, r, <<>>, <<>>)
    /\ UNCHANGED <<config, registry, fitted, ghost>>

\* the list object fit assigned to self.variables (lines 107 and 110)
VariablesObject(e) == [owner |-> e, idx |-> 0, gen |-> 0]

\* list(...) and a list comprehension build a new list object at each
\* evaluation: the one made for facade idx by this get_models call, told
\* from those of the call before by gen
NewList(e, idx) ==
    [owner |-> "facade", idx |-> idx,
     gen |-> IF /\ last.op = "get_models" /\ last.e = e
                /\ last.facades # <<>>
             THEN 1 - last.facades[1].variables_id.gen ELSE 0]

\* get_models with every facade given the first temperature of the ladder
DerivedFacadeFirstTemp(e, idx) ==
    [model_ |-> models_[e][idx], temp_ |-> ts[e][1],
     variables |-> IF X_[e].hasColumns THEN X_[e].columns
                   ELSE [i \in 1..X_[e].ncols |-> "X" \o ToString(i - 1)],
     variables_id |-> NewList(e, idx),
     prior_par |-> "PRIORS", ops |-> get_priors.ops, custom_ops |-> EmptyDict]

\* get_models with each facade given a deep copy of the tree
DerivedFacadeCopied(e, idx) ==
    [model_ |-> [fit |-> models_[e][idx].fit, key |-> 0 - idx],
     temp_ |-> ts[e][idx],
     variables |-> IF X_[e].hasColumns THEN X_[e].columns
                   ELSE [i \in 1..X_[e].ncols |-> "X" \o ToString(i - 1)],
     variables_id |-> NewList(e, idx),
     prior_par |-> "PRIORS", ops |-> get_priors.ops, custom_ops |-> EmptyDict]

\* the estimator get_models builds for position idx: BMSRegressor() with
\* model_, temp_ and variables overwritten; model_ is the tree object of the
\* population itself, variables a new list
DerivedFacade(e, idx) ==
    [model_ |-> models_[e][idx], temp_ |-> ts[e][idx],
     variables |-> IF X_[e].hasColumns THEN X_[e].columns
                   ELSE [i \in 1..X_[e].ncols |-> "X" \o ToString(i - 1)],
     variables_id |-> NewList(e, idx),
     prior_par |-> "PRIORS", ops |-> get_priors.ops, custom_ops |-> EmptyDict]

\* get_models(): self.X_.shape raises AttributeError while X_ is None
get_models(e) ==
    /\ IF X_[e].isNone
       THEN Returned("get_models", e, "AttributeError", <<>>, <<>>)
       ELSE Returned("get_models", e, "ok", <<>>,
                     [idx \in 1..Len(models_[e]) |-> DerivedFacade(e, idx)])
    /\ UNCHANGED <<config, registry, fitted, ghost>>

\* ------------------------------------------------- trees held by facades
\* what a caller sees of the tree object tree of estimator e's population
TreeContent(e, tree) ==
    [tree |-> tree, state |-> IF tree \in mutated[e] THEN "changed"
                              ELSE "as searched"]

\* the caller changes in place the tree it reaches as facades[idx].model_,
\* facades being what get_models(e) has just returned (line 195 stores the
\* tree object in the facade)
Mutate(e, idx) ==
    /\ last.op = "get_models" /\ last.e = e /\ last.outcome = "ok"
    /\ idx \in DOMAIN last.facades
    /\ last.facades[idx].model_ \notin mutated[e]
    /\ mutated' = [mutated EXCEPT ![e] = @ \cup {last.facades[idx].model_}]
    /\ last' = [last EXCEPT !.op = "mutate", !.idx = idx]
    /\ hist' = NoHist
    /\ UNCHANGED <<config, registry, ghost, X_, y_, model_, temp_, models_,
                   loss_, cache_, variables, pms>>

\* ------------------------------------------------------------ properties
Reads == {"predict", "present_results", "repr", "get_models", "latex"}

\* the Fitted State of section 3 of the specification
FittedStateOf(e) ==
    <<model_[e], loss_[e], cache_[e], models_[e], variables[e], X_[e], y_[e]>>

\* C1: on an estimator on which fit was never called, predict,
\* present_results, repr, get_models and latex each end in a not-fitted error.
C1_UnfitRaisesNotFitted ==
    (last.op \in Reads /\ nfit[last.e] = 0) => last.outcome = "NotFittedError"

\* C2: a fit call that raises leaves the Fitted State of an estimator that
\* was fitted before exactly as it was.
C2_FailedFitKeepsFittedState ==
    [][\A e \in Estimators :
          (nfit'[e] # nfit[e] /\ last'.outcome # "ok" /\ ~X_[e].isNone)
          => FittedStateOf(e)' = FittedStateOf(e)]_vars

\* C3: after fit calls that all succeeded, every component of the Fitted
\* State is the one the most recent call produced.
C3_FittedStateReplaced ==
    \A e \in Estimators :
        (nfit[e] > 0 /\ ~failed[e])
        => /\ model_[e].fit = nfit[e]
           /\ loss_[e].fit = nfit[e]
           /\ cache_[e].fit = nfit[e]
           /\ \A i \in DOMAIN models_[e] : models_[e][i].fit = nfit[e]
           /\ X_[e].fit = nfit[e]
           /\ y_[e].fit = nfit[e]
           /\ variables[e] = X_[e].columns

\* two successful fits in a row on one estimator
C3_Witness == \E e \in Estimators : nfit[e] = 2 /\ ~failed[e]

\* C4: on a fitted estimator the resolved names are as many as the columns of
\* the fitted X, and the sequence predict puts on its input (variables) is
\* the sequence each facade of get_models carries.
C4_NamesReused ==
    \A e \in Estimators :
        ~X_[e].isNone
        => /\ Len(variables[e]) = X_[e].ncols
           /\ \A idx \in DOMAIN models_[e] :
                 DerivedFacade(e, idx).variables = variables[e]

\* the prior table estimator e holds
PriorTable(e) == dicts[prior_par[e]]

\* C5 as stated: no call changes the prior table, the temperature ladder or
\* the iteration budget of an estimator.
C5_ConfigurationFixed ==
    [][\A e \in Estimators :
          /\ ts'[e] = ts[e]
          /\ epochs'[e] = epochs[e]
          /\ PriorTable(e)' = PriorTable(e)]_vars

\* C5 amended: no call changes the ladder, the budget or which prior table an
\* estimator holds; the reads leave every prior table as it is; a call of
\* add_primitive or fit only sets, in the table of the estimator it is made
\* on, the prior keys of operators registered on it to the default weight,
\* and leaves every other key with its value.
C5_ConfigurationAmended ==
    [][/\ ts' = ts /\ epochs' = epochs /\ prior_par' = prior_par
       /\ (last'.op \in Reads => dicts' = dicts)
       /\ \A r \in DOMAIN dicts :
             /\ DOMAIN dicts[r] \subseteq DOMAIN dicts'[r]
             /\ \A k \in DOMAIN dicts'[r] :
                   (k \notin DOMAIN dicts[r] \/ dicts'[r][k] # dicts[r][k])
                   => /\ dicts'[r][k] = DefaultWeight
                      /\ last'.op \in {"add_primitive", "fit"}
                      /\ r = prior_par[last'.e]
                      /\ \E n \in DOMAIN custom_ops'[last'.e] :
                            k = PriorKey(n)]_vars

\* a registration has overwritten the built-in weight of sin
C5_Witness ==
    /\ last.op = "add_primitive" /\ last.outcome = "ok" /\ last.arg = Sin2
    /\ PriorTable(last.e)["Nopi_sin"] = DefaultWeight

\* C6: add_primitive or fit on one estimator leaves the operator table, the
\* custom-operator table and the prior table of every other estimator, the
\* facades of get_models included, unchanged.
C6_InstancesIsolated ==
    [][\A a \in Estimators :
          (last'.e = a /\ last'.op \in {"add_primitive", "fit"})
          => /\ \A b \in Estimators \ {a} :
                   /\ ops'[b] = ops[b]
                   /\ custom_ops'[b] = custom_ops[b]
                   /\ PriorTable(b)' = PriorTable(b)
             /\ \A i \in DOMAIN last.facades :
                   dicts'[last.facades[i].prior_par]
                       = dicts[last.facades[i].prior_par]]_vars

\* C7: every operator name in the custom-operator table of an estimator is
\* in its operator table with that operator's parameter count and has its
\* prior key in the prior table with the default weight.
C7_ConsistentTriple ==
    \A e \in Estimators :
        \A n \in DOMAIN custom_ops[e] :
            /\ n \in DOMAIN ops[e]
            /\ ops[e][n] = custom_ops[e][n].nparams
            /\ PriorKey(n) \in DOMAIN PriorTable(e)
            /\ PriorTable(e)[PriorKey(n)] = DefaultWeight

\* C8: after two add_primitive calls in a row that registered operators of
\* one name on one estimator, its three tables are what a single call with
\* the second operator makes of the tables before the first call.
C8_Idempotent ==
    hist.n = 2
    => LET once == add_primitive(hist.base, last.arg)
       IN /\ custom_ops[last.e] = once.custom_ops
          /\ ops[last.e] = once.ops
          /\ PriorTable(last.e) = once.prior_par

\* f registered with one parameter, then again with two
C8_Witness ==
    /\ hist.n = 2 /\ last.arg = F2
    /\ hist.pre.custom_ops["f"] = F1
    /\ "f" \notin DOMAIN hist.base.custom_ops

\* C9: no call removes a key from the operator, custom-operator or prior
\* table of an estimator, and a session that fit builds is built on tables
\* holding every key they held before the call.
C9_RegistrationsPermanent ==
    [][\A e \in Estimators :
          /\ DOMAIN ops[e] \subseteq DOMAIN ops'[e]
          /\ DOMAIN custom_ops[e] \subseteq DOMAIN custom_ops'[e]
          /\ DOMAIN PriorTable(e) \subseteq DOMAIN PriorTable(e)'
          /\ pms'[e] # pms[e]
             => /\ DOMAIN ops[e] \subseteq last'.vocab.ops
                /\ DOMAIN custom_ops[e] \subseteq last'.vocab.custom_ops
                /\ DOMAIN PriorTable(e) \subseteq last'.vocab.prior_par]_vars

\* a fit that registers nothing itself (root names the known operator sin,
\* custom_ops is None) builds its session with f, registered earlier
C9_Witness ==
    /\ last.op = "fit" /\ last.outcome = "ok" /\ last.arg = Str("sin")
    /\ "f" \in last.vocab.ops /\ "f" \in last.vocab.custom_ops
    /\ "Nopi_f" \in last.vocab.prior_par
    /\ "f" \in DOMAIN custom_ops[last.e]

C11_TempOfModel ==
    (last.op = "fit" /\ last.outcome = "ok")
    => temp_[last.e] = model_[last.e].key

\* the places in the calls of a fit call where step is called
StepsOf(calls, step) == {i \in DOMAIN calls : calls[i].step = step}

\* C12: in a fit call every add_primitive call comes before the session is
\* built and the run comes after it; a session is built on tables that hold
\* every operator of custom_ops and the root; and a root whose name was a key
\* of the operator table when fit was called is not registered again.
C12_RegisterThenBuildThenRun ==
    [][last'.op = "fit"
       => LET c == last'.calls
              e == last'.e
              root == last'.arg
          IN /\ \A i \in StepsOf(c, "add_primitive"), j \in StepsOf(c, "Parallel") :
                   i < j
             /\ \A j \in StepsOf(c, "run") :
                   \E i \in StepsOf(c, "Parallel") : i < j
             /\ last'.vocab # NoVocabulary
                => /\ \A k \in DOMAIN last'.custom :
                         /\ last'.custom[k].name \in last'.vocab.ops
                         /\ last'.custom[k].name \in last'.vocab.custom_ops
                   /\ root.kind # "None" => root.name \in last'.vocab.ops
             /\ (root.kind # "None" /\ root.name \in DOMAIN ops[e])
                => \A i \in StepsOf(c, "add_primitive") : c[i].from # "root"]_vars

\* C13: a fit call builds at most one session and runs it at most once, with
\* the epochs of the estimator as the budget; a call that raises is the last
\* call fit makes and fit then raises; a fit call that returns has built one
\* session and run it once, and the trajectory it stores is that of a run of
\* epochs steps.
C13_OneSessionOneRun ==
    last.op = "fit"
    => LET c == last.calls
           e == last.e
       IN /\ Cardinality(StepsOf(c, "Parallel")) <= 1
          /\ Cardinality(StepsOf(c, "run")) <= 1
          /\ \A i \in StepsOf(c, "run") : c[i].budget = epochs[e]
          /\ \A i \in DOMAIN c :
                c[i].raised => (i = Len(c) /\ last.outcome # "ok")
          /\ last.outcome = "ok"
             => /\ Cardinality(StepsOf(c, "Parallel")) = 1
                /\ Cardinality(StepsOf(c, "run")) = 1
                /\ \A i \in DOMAIN c : ~c[i].raised
                /\ cache_[e].steps = epochs[e]

\* the run step of a fit call on an estimator with epochs of its own raised
C13_Witness ==
    /\ last.op = "fit" /\ last.outcome = "EngineError"
    /\ epochs[last.e] = UserEpochs
    /\ \E i \in StepsOf(last.calls, "run") : last.calls[i].raised

\* C14: predict, repr, latex, present_results and get_models on a fitted
\* estimator, whether they return or raise, leave its Fitted State, the trees
\* of its population, its configuration and its three tables as they were.
C14_ReadsChangeNothing ==
    [][\A e \in Estimators :
          (last'.op \in Reads /\ last'.e = e /\ ~X_[e].isNone)
          => /\ FittedStateOf(e)' = FittedStateOf(e)
             /\ mutated'[e] = mutated[e]
             /\ ts'[e] = ts[e] /\ epochs'[e] = epochs[e]
             /\ prior_par'[e] = prior_par[e]
             /\ PriorTable(e)' = PriorTable(e)
             /\ ops'[e] = ops[e]
             /\ custom_ops'[e] = custom_ops[e]]_vars

\* predict has raised on a fitted estimator that holds a custom operator
C14_Witness ==
    /\ last.op = "predict" /\ last.outcome = "ValueError"
    /\ ~X_[last.e].isNone
    /\ custom_ops[last.e] # EmptyDict

\* whether the step changes what is seen of tree
SeenChanged(e, tree) == (tree \in mutated'[e]) # (tree \in mutated[e])

\* C15: the facades get_models returns all hold, as their variable names, the
\* list object fit resolved; and a change made to the tree of one facade
\* changes the tree seen through no other facade, of the same get_models call
\* or of the call before it.
C15_FacadesIsolated ==
    [][/\ (last'.op = "get_models" /\ last'.outcome = "ok")
          => \A i \in DOMAIN last'.facades :
                last'.facades[i].variables_id = VariablesObject(last'.e)
       /\ last'.op = "mutate"
          => /\ \A j \in DOMAIN last.facades \ {last'.idx} :
                   ~SeenChanged(last.e, last.facades[j].model_)
             /\ \A j \in DOMAIN last.earlier :
                   ~SeenChanged(last.e, last.earlier[j].model_)]_vars

\* C16: the tree each facade of get_models holds is the tree object at its
\* position in models_ of the estimator, and a change made to the tree of
\* facade idx is a change of models_[idx] as the estimator sees it.
C16_FacadesAliasPopulation ==
    [][/\ (last'.op = "get_models" /\ last'.outcome = "ok")
          => /\ Len(last'.facades) = Len(models_'[last'.e])
             /\ \A i \in DOMAIN last'.facades :
                   last'.facades[i].model_ = models_'[last'.e][i]
       /\ last'.op = "mutate"
          => /\ models_'[last.e] = models_[last.e]
             /\ SeenChanged(last.e, models_[last.e][last'.idx])
             /\ TreeContent(last.e, models_[last.e][last'.idx]).state
                   = "as searched"]_vars

\* the caller has changed the tree of the second facade, and the second tree
\* of the estimator's population is changed
C16_Witness ==
    /\ last.op = "mutate" /\ last.idx = 2
    /\ TreeContent(last.e, models_[last.e][2]).state = "changed"
    /\ TreeContent(last.e, models_[last.e][1]).state = "as searched"

\* C17: when the session build or the run of a fit call raises, the
\* operators the call registered are in the operator, custom-operator and
\* prior tables after the call; and the session a fit call builds right after
\* such a call is built on tables that hold them.
C17_NoRollback ==
    [][last'.op = "fit"
       => LET e == last'.e
          IN /\ last'.outcome = "EngineError"
                => \A n \in Registered(last'.calls) :
                      /\ n \in DOMAIN ops'[e]
                      /\ n \in DOMAIN custom_ops'[e]
                      /\ PriorKey(n) \in DOMAIN dicts'[prior_par'[e]]
             /\ last'.carried = IF /\ last.op = "fit" /\ last.e = e
                                   /\ last.outcome = "EngineError"
                                THEN Registered(last.calls) ELSE {}
             /\ last'.vocab # NoVocabulary
                => \A n \in last'.carried :
                      /\ n \in last'.vocab.ops
                      /\ n \in last'.vocab.custom_ops
                      /\ PriorKey(n) \in last'.vocab.prior_par]_vars

\* a fit call that registers nothing itself has built its session with f,
\* which the fit call before it registered before its engine raised
C17_Witness ==
    /\ last.op = "fit" /\ last.outcome = "ok"
    /\ last.carried = {"f"}
    /\ StepsOf(last.calls, "add_primitive") = {}
    /\ "f" \in last.vocab.ops
    /\ nfit[last.e] = 2

\* ----------------------------------------------------------------- Next
\* the calls made on the estimators of E
Calls(E) ==
    \/ \E e \in E, op \in OpInputs : AddPrimitive(e, op)
    \/ \E e \in E, c \in FitCalls :
          Fit(e, c.X, c.y, c.args.root, c.args.custom, c.engine)
    \/ \E e \in E, ncols \in 1..MaxCols : Predict(e, ncols)
    \/ \E e \in E : present_results(e)
    \/ \E e \in E : repr(e)
    \/ \E e \in E : latex(e)
    \/ \E e \in E : get_models(e)

\* every method is called on A; on B, the second instance, only
\* add_primitive is
Next ==
    \/ Calls({"A"})
    \/ AddPrimitive("B", F1)

Spec == Init /\ [][Next]_vars

\* one estimator in use, the other constructed and left alone
NextA == Calls({"A"})

SpecA == Init /\ [][NextA]_vars

\* the fit calls that register nothing
PlainFitCalls ==
    {c \in FitCalls : c.args = [root |-> NoneVal, custom |-> NoCustomOps]}

\* one estimator fitted and read, and the trees of the facades get_models
\* returns changed by the caller
NextViews ==
    \/ \E c \in PlainFitCalls :
          Fit("A", c.X, c.y, c.args.root, c.args.custom, c.engine)
    \/ \E ncols \in 1..MaxCols : Predict("A", ncols)
    \/ repr("A")
    \/ get_models("A")
    \/ \E idx \in 1..NumTemps : Mutate("A", idx)

SpecViews == Init /\ [][NextViews]_vars
====
